---- MODULE Spec2Model ----
(***************************************************************************)
(* A model of the nonogram game of src/Nonogram.py and src/utils.py.       *)
(*                                                                         *)
(* Python lists are modelled as sequences (1-based); a Python index i is   *)
(* translated by PyIdx, which also models Python's negative indices.       *)
(* Pointer coordinates (event.xdata, event.ydata) are floats in the code;  *)
(* here they are carried as twice their value (xdata2, ydata2), so that    *)
(* the truncation done by int() is part of the model.                      *)
(***************************************************************************)
EXTENDS Integers, Sequences, FiniteSets, TLC

\* Largest number of cells (rows * columns) of a puzzle file in the model.
MaxCells == 3

\* settings.MAX_TRIES, imported at src/Nonogram.py:7.
MAX_TRIES == 3

VARIABLES
    solution,      \* self.solution: list of rows of 0/1 (file order)
    n_columns,     \* self.n_columns
    n_rows,        \* self.n_rows
    grid,          \* self.grid: list of rows of "0" / "1" / "x" (render order)
    column_hints,  \* self.column_hints
    row_hints,     \* self.row_hints
    tries_left,    \* self.tries_left
    effects,       \* what the last handler showed: label updates, dialogs, redraws
    mistakes       \* history: mistaken primary clicks since the last restart_game

vars == <<solution, n_columns, n_rows, grid, column_hints, row_hints,
          tries_left, effects, mistakes>>

----------------------------------------------------------------------------
(* Python helpers *)

\* list[i] is defined for -len <= i < len.
PyIndexOK(list, i) == (-Len(list) <= i) /\ (i < Len(list))

\* The 1-based position Python's list[i] reads.
PyIdx(list, i) == IF i >= 0 THEN i + 1 ELSE Len(list) + i + 1

PyGet(list, i) == list[PyIdx(list, i)]

\* int(v) for the float v = v2 / 2: truncation towards zero.
PyInt2(v2) == IF v2 >= 0 THEN v2 \div 2 ELSE -((-v2) \div 2)

RECURSIVE MaxLen(_, _)
\* max(len(line) for line in lines), scanning from position k.
MaxLen(lines, k) ==
    IF k > Len(lines) THEN 0
    ELSE LET rest == MaxLen(lines, k + 1)
         IN  IF Len(lines[k]) > rest THEN Len(lines[k]) ELSE rest

----------------------------------------------------------------------------
(* utils.py *)

RECURSIVE ColScan_NoFinalAppend(_, _, _, _, _)
\* ColScan without the append after the loop: a run that reaches the last
\* row is lost.
ColScan_NoFinalAppend(sol, col, row, count, col_hint) ==
    IF row >= Len(sol)
    THEN col_hint
    ELSE IF PyGet(PyGet(sol, row), col) = 1
         THEN ColScan_NoFinalAppend(sol, col, row + 1, count + 1, col_hint)
         ELSE IF count > 0
              THEN ColScan_NoFinalAppend(sol, col, row + 1, 0, Append(col_hint, count))
              ELSE ColScan_NoFinalAppend(sol, col, row + 1, count, col_hint)

RECURSIVE ColScan(_, _, _, _, _)
\* The inner loop of the column pass: rows row.. of column col.
ColScan(sol, col, row, count, col_hint) ==
    IF row >= Len(sol)
    THEN IF count > 0 THEN Append(col_hint, count) ELSE col_hint
    ELSE IF PyGet(PyGet(sol, row), col) = 1
         THEN ColScan(sol, col, row + 1, count + 1, col_hint)
         ELSE IF count > 0
              THEN ColScan(sol, col, row + 1, 0, Append(col_hint, count))
              ELSE ColScan(sol, col, row + 1, count, col_hint)

RECURSIVE RowScan_NoReset(_, _, _, _)
\* RowScan that appends a run but forgets to set count back to 0.
RowScan_NoReset(row, k, count, row_hint) ==
    IF k >= Len(row)
    THEN IF count > 0 THEN Append(row_hint, count) ELSE row_hint
    ELSE IF PyGet(row, k) = 1
         THEN RowScan_NoReset(row, k + 1, count + 1, row_hint)
         ELSE IF count > 0
              THEN RowScan_NoReset(row, k + 1, count, Append(row_hint, count))
              ELSE RowScan_NoReset(row, k + 1, count, row_hint)

RECURSIVE RowScan(_, _, _, _)
\* The inner loop of the row pass: squares k.. of one row.
RowScan(row, k, count, row_hint) ==
    IF k >= Len(row)
    THEN IF count > 0 THEN Append(row_hint, count) ELSE row_hint
    ELSE IF PyGet(row, k) = 1
         THEN RowScan(row, k + 1, count + 1, row_hint)
         ELSE IF count > 0
              THEN RowScan(row, k + 1, 0, Append(row_hint, count))
              ELSE RowScan(row, k + 1, count, row_hint)

\* determine_hints returns (column_hints, row_hints).
determine_hints(sol) ==
    << [col \in 1..Len(sol[1]) |-> ColScan(sol, col - 1, 0, 0, <<>>)],
       [row \in 1..Len(sol)    |-> RowScan(sol[row], 0, 0, <<>>)] >>

\* What open() finds for a puzzle file that does not exist (FileNotFoundError).
NoFile == [found |-> FALSE, lines |-> <<>>]

Dims == {d \in (1..MaxCells) \X (1..MaxCells) : d[1] * d[2] <= MaxCells}

\* The well-formed puzzle files: lines of the tokens "0" and "1", all of one length.
PuzzleFiles == UNION {[1..d[1] -> [1..d[2] -> {"0", "1"}]] : d \in Dims}

\* int(x.strip()) on a token of a well-formed file.
ParseInt(tok) == IF tok = "1" THEN 1 ELSE 0

\* What open() can find for "puzzles/puzzle_<n>.txt": a well-formed file or none.
OpenResults == {[found |-> TRUE, lines |-> f] : f \in PuzzleFiles} \cup {NoFile}

\* get_solution on the lines of a file that exists.
get_solution(file) ==
    [r \in 1..Len(file) |-> [c \in 1..Len(file[r]) |-> ParseInt(file[r][c])]]

----------------------------------------------------------------------------
(* Nonogram.py *)

\* [["0" for _ in range(n_columns)] for _ in range(n_rows)]
EmptyGrid(nr, nc) == [i \in 1..nr |-> [j \in 1..nc |-> "0"]]

RECURSIVE CheckFrom_NoFlip(_, _, _, _, _, _)
\* CheckFrom that compares play-grid row i with solution row i.
CheckFrom_NoFlip(sol, g, nr, nc, i, j) ==
    IF i >= nr THEN TRUE
    ELSE IF j >= nc THEN CheckFrom_NoFlip(sol, g, nr, nc, i + 1, 0)
    ELSE IF PyGet(PyGet(sol, i), j) = 1 /\ PyGet(PyGet(g, i), j) # "1"
         THEN FALSE
         ELSE CheckFrom_NoFlip(sol, g, nr, nc, i, j + 1)

RECURSIVE CheckFrom_NoUnmarked(_, _, _, _, _, _)
\* CheckFrom that also wants every cell decided: an Unmarked cell fails it.
CheckFrom_NoUnmarked(sol, g, nr, nc, i, j) ==
    IF i >= nr THEN TRUE
    ELSE IF j >= nc THEN CheckFrom_NoUnmarked(sol, g, nr, nc, i + 1, 0)
    ELSE IF PyGet(PyGet(g, i), j) = "0"
            \/ (PyGet(PyGet(sol, nr - i - 1), j) = 1 /\ PyGet(PyGet(g, i), j) # "1")
         THEN FALSE
         ELSE CheckFrom_NoUnmarked(sol, g, nr, nc, i, j + 1)

RECURSIVE CheckFrom(_, _, _, _, _, _)
\* The two loops of check_state, from position (i, j) on.
CheckFrom(sol, g, nr, nc, i, j) ==
    IF i >= nr THEN TRUE
    ELSE IF j >= nc THEN CheckFrom(sol, g, nr, nc, i + 1, 0)
    ELSE IF PyGet(PyGet(sol, nr - i - 1), j) = 1 /\ PyGet(PyGet(g, i), j) # "1"
         THEN FALSE
         ELSE CheckFrom(sol, g, nr, nc, i, j + 1)

check_state(sol, g, nr, nc) == CheckFrom(sol, g, nr, nc, 0, 0)

\* The limits draw() sets on the axes: the grid plus the hint margins.
XLim == <<-MaxLen(row_hints, 1), n_columns>>
YLim == <<0, n_rows + MaxLen(column_hints, 1)>>

Init ==
    \E file \in PuzzleFiles :
        /\ solution = get_solution(file)
        /\ n_columns = Len(file[1])
        /\ n_rows = Len(file)
        /\ grid = EmptyGrid(Len(file), Len(file[1]))
        /\ column_hints = determine_hints(get_solution(file))[1]
        /\ row_hints = determine_hints(get_solution(file))[2]
        /\ tries_left = MAX_TRIES
        /\ effects = <<"draw">>
        /\ mistakes = 0

\* self.grid[y][x] (and self.solution[...][x]) raise IndexError outside these.
CellOK(g, y, x) == PyIndexOK(g, y) /\ PyIndexOK(PyGet(g, y), x)

Cell(g, y, x) == PyGet(PyGet(g, y), x)

\* self.grid[y][x] = v
SetCell(g, y, x, v) == [g EXCEPT ![PyIdx(g, y)][PyIdx(PyGet(g, y), x)] = v]

\* The button_press_event the canvas delivers: a mouse button and, when the
\* pointer is inside the axes, a position within the limits draw() has set
\* (cell centres of the grid and of the hint margins); outside the axes
\* xdata and ydata are None.
Buttons == {1, 2, 3}

ClickEvents ==
    [button : Buttons, inaxes : {TRUE},
     xdata2 : {v \in (2 * XLim[1])..(2 * XLim[2]) : v % 2 = 1},
     ydata2 : {v \in (2 * YLim[1])..(2 * YLim[2]) : v % 2 = 1}]
    \cup [button : Buttons, inaxes : {FALSE}, xdata2 : {0}, ydata2 : {0}]

\* restart_game that unpacks the result of determine_hints in the wrong order.
restart_game_SwappedHints(sol, nr, nc) ==
    LET hints == determine_hints(sol)
    IN  /\ grid' = EmptyGrid(nr, nc)
        /\ tries_left' = MAX_TRIES
        /\ column_hints' = hints[2]
        /\ row_hints' = hints[1]
        /\ mistakes' = 0

\* restart_game, for the solution and dimensions the object holds when it is called.
restart_game(sol, nr, nc) ==
    LET hints == determine_hints(sol)
    IN  /\ grid' = EmptyGrid(nr, nc)
        /\ tries_left' = MAX_TRIES
        /\ column_hints' = hints[1]
        /\ row_hints' = hints[2]
        /\ mistakes' = 0

\* An exception leaves on_click before anything was assigned.
Raises(exc) ==
    /\ effects' = <<exc>>
    /\ UNCHANGED <<solution, n_columns, n_rows, grid, column_hints, row_hints,
                   tries_left, mistakes>>

\* DrawAndCheck that tests the win on the grid as it was before the click.
DrawAndCheck_Stale(g, t, m, shown) ==
    /\ grid' = g
    /\ tries_left' = t
    /\ mistakes' = m
    /\ effects' = shown \o <<"draw">> \o
                  (IF check_state(solution, grid, n_rows, n_columns)
                   THEN <<"won">> ELSE <<>>)
    /\ UNCHANGED <<solution, n_columns, n_rows, column_hints, row_hints>>

\* The end of on_click: draw(), then check_state() and the "You won!" dialog.
DrawAndCheck(g, t, m, shown) ==
    /\ grid' = g
    /\ tries_left' = t
    /\ mistakes' = m
    /\ effects' = shown \o <<"draw">> \o
                  (IF check_state(solution, g, n_rows, n_columns)
                   THEN <<"won">> ELSE <<>>)
    /\ UNCHANGED <<solution, n_columns, n_rows, column_hints, row_hints>>

\* WrongGuess with the game-over test placed after the "Mistake" dialog.
WrongGuess_MistakeFirst(y, x) ==
    IF tries_left - 1 = 0
    THEN /\ restart_game(solution, n_rows, n_columns)
         /\ effects' = <<"tries_label", "mistake", "game_over", "tries_label", "draw">>
         /\ UNCHANGED <<solution, n_columns, n_rows>>
    ELSE DrawAndCheck(SetCell(grid, y, x, "x"), tries_left - 1, mistakes + 1,
                      <<"tries_label", "mistake">>)

\* WrongGuess with the game-over test written as tries_left < 0.
WrongGuess_LateGameOver(y, x) ==
    IF tries_left - 1 < 0
    THEN /\ restart_game(solution, n_rows, n_columns)
         /\ effects' = <<"tries_label", "game_over", "tries_label", "draw">>
         /\ UNCHANGED <<solution, n_columns, n_rows>>
    ELSE DrawAndCheck(SetCell(grid, y, x, "x"), tries_left - 1, mistakes + 1,
                      <<"tries_label", "mistake">>)

\* WrongGuess that marks the cell but forgets to take a try away.
WrongGuess_NoPenalty(y, x) ==
    IF tries_left - 1 = 0
    THEN /\ restart_game(solution, n_rows, n_columns)
         /\ effects' = <<"tries_label", "game_over", "tries_label", "draw">>
         /\ UNCHANGED <<solution, n_columns, n_rows>>
    ELSE DrawAndCheck(SetCell(grid, y, x, "x"), tries_left, mistakes + 1,
                      <<"tries_label", "mistake">>)

\* WrongGuess that takes two tries away for one mistake.
WrongGuess_DoublePenalty(y, x) ==
    IF tries_left - 2 = 0
    THEN /\ restart_game(solution, n_rows, n_columns)
         /\ effects' = <<"tries_label", "game_over", "tries_label", "draw">>
         /\ UNCHANGED <<solution, n_columns, n_rows>>
    ELSE DrawAndCheck(SetCell(grid, y, x, "x"), tries_left - 2, mistakes + 1,
                      <<"tries_label", "mistake">>)

\* WrongGuess that resets the tries on game over but keeps the grid.
WrongGuess_KeepGrid(y, x) ==
    IF tries_left - 1 = 0
    THEN /\ grid' = SetCell(grid, y, x, "x")
         /\ tries_left' = MAX_TRIES
         /\ mistakes' = 0
         /\ effects' = <<"tries_label", "game_over", "tries_label", "draw">>
         /\ UNCHANGED <<solution, n_columns, n_rows, column_hints, row_hints>>
    ELSE DrawAndCheck(SetCell(grid, y, x, "x"), tries_left - 1, mistakes + 1,
                      <<"tries_label", "mistake">>)

\* The branch of on_click for a wrong guess on cell (y, x): lines 151-158.
WrongGuess(y, x) ==
    IF tries_left - 1 = 0
    THEN /\ restart_game(solution, n_rows, n_columns)
         /\ effects' = <<"tries_label", "game_over", "tries_label", "draw">>
         /\ UNCHANGED <<solution, n_columns, n_rows>>
    ELSE DrawAndCheck(SetCell(grid, y, x, "x"), tries_left - 1, mistakes + 1,
                      <<"tries_label", "mistake">>)

\* LeftClick that reads the solution at row y, without the n_rows - y - 1 flip.
LeftClick_NoFlip(y, x) ==
    IF ~CellOK(grid, y, x) THEN Raises("IndexError")
    ELSE IF Cell(grid, y, x) = "0"
         THEN IF ~CellOK(solution, y, x) THEN Raises("IndexError")
              ELSE IF Cell(solution, y, x) = 1
                   THEN DrawAndCheck(SetCell(grid, y, x, "1"), tries_left, mistakes, <<>>)
                   ELSE WrongGuess(y, x)
         ELSE DrawAndCheck(grid, tries_left, mistakes, <<>>)

\* LeftClick that guesses again on every cell that is not Filled.
LeftClick_Reevaluate(y, x) ==
    IF ~CellOK(grid, y, x) THEN Raises("IndexError")
    ELSE IF Cell(grid, y, x) # "1"
         THEN IF ~CellOK(solution, n_rows - y - 1, x) THEN Raises("IndexError")
              ELSE IF Cell(solution, n_rows - y - 1, x) = 1
                   THEN DrawAndCheck(SetCell(grid, y, x, "1"), tries_left, mistakes, <<>>)
                   ELSE WrongGuess(y, x)
         ELSE DrawAndCheck(grid, tries_left, mistakes, <<>>)

\* The left-click branch: lines 147-158.
LeftClick(y, x) ==
    IF ~CellOK(grid, y, x) THEN Raises("IndexError")
    ELSE IF Cell(grid, y, x) = "0"
         THEN IF ~CellOK(solution, n_rows - y - 1, x) THEN Raises("IndexError")
              ELSE IF Cell(solution, n_rows - y - 1, x) = 1
                   THEN DrawAndCheck(SetCell(grid, y, x, "1"), tries_left, mistakes, <<>>)
                   ELSE WrongGuess(y, x)
         ELSE DrawAndCheck(grid, tries_left, mistakes, <<>>)

\* Toggle with a plain else: whatever is not Unmarked becomes Unmarked.
Toggle_Unfill(v) == IF v = "0" THEN "x" ELSE "0"

\* Toggle without the elif: a Crossed cell stays Crossed.
Toggle_OneWay(v) == IF v = "0" THEN "x" ELSE v

\* The toggle of the right-click branch: lines 160-163.
Toggle(v) == IF v = "0" THEN "x" ELSE IF v = "x" THEN "0" ELSE v

RightClick(y, x) ==
    IF ~CellOK(grid, y, x) THEN Raises("IndexError")
    ELSE DrawAndCheck(SetCell(grid, y, x, Toggle(Cell(grid, y, x))),
                      tries_left, mistakes, <<>>)

on_click(event) ==
    IF ~event.inaxes THEN Raises("TypeError")
    ELSE LET x == PyInt2(event.xdata2)
             y == PyInt2(event.ydata2)
         IN  IF event.button = 1 THEN LeftClick(y, x)
             ELSE IF event.button = 3 THEN RightClick(y, x)
             ELSE DrawAndCheck(grid, tries_left, mistakes, <<>>)

\* load_puzzle that restarts the game whether or not the file was found.
load_puzzle_RestartAlways(opened) ==
    IF ~opened.found
    THEN /\ effects' = <<"error">>
         /\ restart_game(solution, n_rows, n_columns)
         /\ UNCHANGED <<solution, n_columns, n_rows>>
    ELSE LET sol == get_solution(opened.lines)
         IN  /\ solution' = sol
             /\ n_columns' = Len(sol[1])
             /\ n_rows' = Len(sol)
             /\ restart_game(sol, Len(sol), Len(sol[1]))
             /\ effects' = <<"tries_label", "draw">>

\* load_puzzle that stores the new solution but forgets restart_game.
load_puzzle_NoRestart(opened) ==
    IF ~opened.found
    THEN /\ effects' = <<"error">>
         /\ UNCHANGED <<solution, n_columns, n_rows, grid, column_hints,
                        row_hints, tries_left, mistakes>>
    ELSE LET sol == get_solution(opened.lines)
         IN  /\ solution' = sol
             /\ n_columns' = Len(sol[1])
             /\ n_rows' = Len(sol)
             /\ effects' = <<"tries_label", "draw">>
             /\ UNCHANGED <<grid, column_hints, row_hints, tries_left, mistakes>>

\* load_puzzle, given what opening the puzzle file yields.
load_puzzle(opened) ==
    IF ~opened.found
    THEN /\ effects' = <<"error">>
         /\ UNCHANGED <<solution, n_columns, n_rows, grid, column_hints,
                        row_hints, tries_left, mistakes>>
    ELSE LET sol == get_solution(opened.lines)
         IN  /\ solution' = sol
             /\ n_columns' = Len(sol[1])
             /\ n_rows' = Len(sol)
             /\ restart_game(sol, Len(sol), Len(sol[1]))
             /\ effects' = <<"tries_label", "draw">>

Click == \E event \in ClickEvents : on_click(event)

Load == \E opened \in OpenResults : load_puzzle(opened)

Next == Click \/ Load

Spec == Init /\ [][Next]_vars

----------------------------------------------------------------------------
(* The hints of larger grids: the start of __init__ alone *)

\* Longest row and column of the grids whose hints are derived.
MaxLine == 4

HintDims == {d \in (1..MaxLine) \X (1..MaxLine) : d[1] * d[2] <= 2 * MaxLine}

\* The well-formed puzzle files of these dimensions.
HintFiles == UNION {[1..d[1] -> [1..d[2] -> {"0", "1"}]] : d \in HintDims}

\* __init__ after get_solution and the grid, before determine_hints: lines 44-47.
InitHints ==
    \E file \in HintFiles :
        /\ solution = get_solution(file)
        /\ n_columns = Len(file[1])
        /\ n_rows = Len(file)
        /\ grid = EmptyGrid(Len(file), Len(file[1]))
        /\ column_hints = <<>>
        /\ row_hints = <<>>
        /\ tries_left = MAX_TRIES
        /\ effects = <<>>
        /\ mistakes = 0

\* self.column_hints, self.row_hints = determine_hints(self.solution): line 48.
DeriveHints ==
    /\ row_hints = <<>>
    /\ column_hints' = determine_hints(solution)[1]
    /\ row_hints' = determine_hints(solution)[2]
    /\ UNCHANGED <<solution, n_columns, n_rows, grid, tries_left, effects, mistakes>>

NextHints == DeriveHints

SpecHints == InitHints /\ [][NextHints]_vars

----------------------------------------------------------------------------
(* Vocabulary of the properties *)

\* The pointer of an event is over the grid area, not over a hint margin.
InGrid(e) ==
    /\ e.inaxes
    /\ 0 < e.xdata2 /\ e.xdata2 < 2 * n_columns
    /\ 0 < e.ydata2 /\ e.ydata2 < 2 * n_rows

\* The positions of the play grid: row y, column x.
Rows == 0..(n_rows - 1)
Cols == 0..(n_columns - 1)

\* The click of a button with the pointer over play-grid cell (y, x).
ClickAt(b, y, x) ==
    [button |-> b, inaxes |-> TRUE, xdata2 |-> 2 * x + 1, ydata2 |-> 2 * y + 1]

\* Play-grid cell (y, x), and the solution cell it corresponds to.
GridAt(g, y, x) == g[y + 1][x + 1]
SolutionAt(y, x) == solution[n_rows - y][x + 1]

\* The play grid g with cell (y, x) replaced by v and every other cell kept.
WithCell(g, y, x, v) ==
    [i \in 1..Len(g) |-> [j \in 1..Len(g[i]) |->
        IF i = y + 1 /\ j = x + 1 THEN v ELSE g[i][j]]]

Shown(what, fx) == \E k \in 1..Len(fx) : fx[k] = what

AllUnmarked(g) == \A i \in 1..Len(g) : \A j \in 1..Len(g[i]) : g[i][j] = "0"

\* Every cell the solution marks filled is Filled in the play grid g.
Solved(g) ==
    \A y \in Rows : \A x \in Cols :
        SolutionAt(y, x) = 1 => GridAt(g, y, x) = "1"

\* Cell (y, x) is Unmarked and its solution cell is empty: a primary click
\* on it is a mistake.
WrongCell(y, x) == GridAt(grid, y, x) = "0" /\ SolutionAt(y, x) = 0

\* Every click over the grid area is a click the canvas can deliver.
GridClicksDelivered ==
    \A b \in Buttons : \A y \in Rows : \A x \in Cols :
        ClickAt(b, y, x) \in ClickEvents /\ InGrid(ClickAt(b, y, x))

----------------------------------------------------------------------------
(* Properties *)

\* what precedes then in the sequence fx of effects.
ShownBefore(what, then, fx) ==
    \E i \in 1..Len(fx) : \E j \in 1..Len(fx) :
        i < j /\ fx[i] = what /\ fx[j] = then

\* C1, as claimed: the click that brings the Tries Counter to 0 signals the
\* "mistake" effect, then the "game over" effect, and then restarts the game.
C1_MistakeThenGameOver ==
    [][\A y \in Rows : \A x \in Cols :
        (WrongCell(y, x) /\ tries_left = 1 /\ on_click(ClickAt(1, y, x))) =>
            /\ ShownBefore("mistake", "game_over", effects')
            /\ AllUnmarked(grid') /\ tries_left' = MAX_TRIES]_vars

\* C1, amended: the click that brings the Tries Counter to 0 updates the
\* tries label, signals the "game over" effect and then restarts the game
\* (label reset, redraw), in that order; it signals no "mistake" effect and
\* no "won" effect.
C1_GameOverThenRestart ==
    [][\A y \in Rows : \A x \in Cols :
        (WrongCell(y, x) /\ tries_left = 1 /\ on_click(ClickAt(1, y, x))) =>
            /\ effects' = <<"tries_label", "game_over", "tries_label", "draw">>
            /\ AllUnmarked(grid') /\ Len(grid') = n_rows /\ Len(grid'[1]) = n_columns
            /\ tries_left' = MAX_TRIES]_vars

\* A game over has just been shown and the game restarted.
C1_Witness ==
    /\ effects = <<"tries_label", "game_over", "tries_label", "draw">>
    /\ AllUnmarked(grid)

\* C3: the click that makes the MAX_TRIES-th mistaken primary click since the
\* last restart or puzzle load restarts the game: afterwards every Play Grid
\* cell is Unmarked, the Tries Counter is MAX_TRIES and the Solution Grid is
\* the same.
C3_RestartAfterMaxTries ==
    [][\A y \in Rows : \A x \in Cols :
        (WrongCell(y, x) /\ mistakes + 1 = MAX_TRIES /\ on_click(ClickAt(1, y, x))) =>
            /\ AllUnmarked(grid') /\ Len(grid') = n_rows /\ Len(grid'[1]) = n_columns
            /\ tries_left' = MAX_TRIES
            /\ solution' = solution]_vars

\* The game was restarted by the last click, after MAX_TRIES mistakes.
C3_Witness ==
    /\ Shown("game_over", effects)
    /\ mistakes = 0 /\ tries_left = MAX_TRIES

\* C5: a primary click on an Unmarked cell whose solution cell is empty, made
\* with more than one try left, sets exactly that cell to Crossed, takes one
\* try away, signals a "mistake" effect and does not restart the game.
C5_MistakeCostsOneTry ==
    [][\A y \in Rows : \A x \in Cols :
        (WrongCell(y, x) /\ tries_left > 1 /\ on_click(ClickAt(1, y, x))) =>
            /\ grid' = WithCell(grid, y, x, "x")
            /\ tries_left' = tries_left - 1
            /\ Shown("mistake", effects')
            /\ ~Shown("game_over", effects')]_vars

\* A mistake has just been signalled and a try is gone.
C5_Witness ==
    /\ Shown("mistake", effects)
    /\ tries_left < MAX_TRIES
    /\ \E i \in 1..n_rows : \E j \in 1..n_columns : grid[i][j] = "x"

\* C2, as claimed: a click whose pointer is outside the grid area (over a
\* hint margin, or outside the axes) changes no Play Grid cell and does not
\* change the Tries Counter.
C2_OutsideClickRejected ==
    [][\A e \in ClickEvents :
        (~InGrid(e) /\ on_click(e)) =>
            (grid' = grid /\ tries_left' = tries_left)]_vars

\* C4: a primary click on an Unmarked cell whose solution cell is filled sets
\* exactly that cell to Filled, keeps every other cell and the Tries Counter,
\* and signals neither a mistake nor a game over.
C4_CorrectGuessFills ==
    [][\A y \in Rows : \A x \in Cols :
        (/\ GridAt(grid, y, x) = "0" /\ SolutionAt(y, x) = 1
         /\ on_click(ClickAt(1, y, x))) =>
            /\ grid' = WithCell(grid, y, x, "1")
            /\ tries_left' = tries_left
            /\ ~Shown("mistake", effects')
            /\ ~Shown("game_over", effects')
            /\ ~Shown("tries_label", effects')]_vars

\* A cell has been filled by a correct guess and no try was lost for it.
C4_Witness ==
    /\ \E y \in Rows : \E x \in Cols : GridAt(grid, y, x) = "1"
    /\ ~Shown("mistake", effects) /\ Shown("draw", effects)
    /\ \E y \in Rows : \E x \in Cols : GridAt(grid, y, x) = "0"

\* C6: a primary click on a cell that is already Filled or Crossed changes no
\* Play Grid cell and not the Tries Counter, and signals neither a mistake
\* nor a game over, whatever the solution says about the cell.
C6_MarkedCellNoOp ==
    [][\A y \in Rows : \A x \in Cols :
        (/\ GridAt(grid, y, x) \in {"1", "x"}
         /\ on_click(ClickAt(1, y, x))) =>
            /\ grid' = grid
            /\ tries_left' = tries_left
            /\ ~Shown("mistake", effects')
            /\ ~Shown("game_over", effects')
            /\ ~Shown("tries_label", effects')]_vars

\* After a click that changed nothing but the redraw, with a Crossed cell
\* over a filled solution cell and a Filled cell on the grid.
C6_Witness ==
    /\ effects = <<"draw">>
    /\ \E y \in Rows : \E x \in Cols :
          GridAt(grid, y, x) = "x" /\ SolutionAt(y, x) = 1
    /\ \E y \in Rows : \E x \in Cols : GridAt(grid, y, x) = "1"

\* What a secondary click makes of a cell, by the state of the cell alone.
Toggled(v) == CASE v = "0" -> "x" [] v = "x" -> "0" [] v = "1" -> "1"

\* C7: a secondary click turns an Unmarked cell into Crossed and a Crossed
\* cell into Unmarked, leaves a Filled cell as it is, and changes neither
\* another cell nor the Tries Counter; the new grid is determined by the old
\* grid and the position alone, not by the Solution Grid.
C7_SecondaryToggles ==
    [][\A y \in Rows : \A x \in Cols :
        on_click(ClickAt(3, y, x)) =>
            /\ grid' = WithCell(grid, y, x, Toggled(GridAt(grid, y, x)))
            /\ Toggled(GridAt(grid', y, x)) = GridAt(grid, y, x)
            /\ tries_left' = tries_left
            /\ solution' = solution
            /\ ~Shown("mistake", effects')
            /\ ~Shown("game_over", effects')]_vars

\* A cell was Crossed by a secondary click (its solution cell is filled, so
\* no primary click crossed it) while another cell is Filled.
C7_Witness ==
    /\ \E y \in Rows : \E x \in Cols :
          GridAt(grid, y, x) = "x" /\ SolutionAt(y, x) = 1
    /\ tries_left = MAX_TRIES
    /\ Shown("draw", effects)

\* How often what occurs among the effects fx.
Times(what, fx) == Cardinality({k \in 1..Len(fx) : fx[k] = what})

\* C8: after a primary or secondary click that does not restart the game, a
\* "won" effect is signalled once if the post-click grid is solved and not
\* at all otherwise, after the redraw; a click that restarts the game signals
\* no "won" effect; and a click that signals "won" resets neither the Play
\* Grid nor the Tries Counter.
C8_WinCheckedAfterClick ==
    [][\A b \in {1, 3} : \A y \in Rows : \A x \in Cols :
        on_click(ClickAt(b, y, x)) =>
            IF Shown("game_over", effects')
            THEN ~Shown("won", effects')
            ELSE /\ Times("won", effects') = (IF Solved(grid') THEN 1 ELSE 0)
                 /\ Shown("won", effects') =>
                       /\ effects'[Len(effects')] = "won"
                       /\ effects'[Len(effects') - 1] = "draw"
                       /\ tries_left' \in {tries_left, tries_left - 1}
                       /\ \A i \in Rows : \A j \in Cols :
                             (i # y \/ j # x) =>
                                 GridAt(grid', i, j) = GridAt(grid, i, j)]_vars

\* A click has just completed a puzzle that has filled cells.
C8_Witness ==
    /\ Shown("won", effects)
    /\ \E y \in Rows : \E x \in Cols : SolutionAt(y, x) = 1
    /\ tries_left < MAX_TRIES

\* C9: check_state is true exactly when every cell the Solution Grid marks
\* filled is Filled at the corresponding Play Grid position (play-grid row i
\* against solution row n_rows - 1 - i), and what stands in a cell over an
\* empty solution cell does not change its result.
C9_CheckWinMeaning ==
    /\ check_state(solution, grid, n_rows, n_columns) = Solved(grid)
    /\ \A y \in Rows : \A x \in Cols : \A v \in {"0", "1", "x"} :
          SolutionAt(y, x) = 0 =>
              check_state(solution, WithCell(grid, y, x, v), n_rows, n_columns)
                  = check_state(solution, grid, n_rows, n_columns)

\* check_state holds on a grid with more than one row, with a Crossed cell
\* over an empty solution cell.
C9_Witness ==
    /\ check_state(solution, grid, n_rows, n_columns)
    /\ n_rows > 1
    /\ \E y \in Rows : \E x \in Cols : SolutionAt(y, x) = 1
    /\ \E y \in Rows : \E x \in Cols :
          SolutionAt(y, x) = 0 /\ GridAt(grid, y, x) = "x"

\* C10: load_puzzle for a puzzle file that does not exist reports the error
\* and leaves the Solution Grid, its dimensions, the Play Grid, the hints and
\* the Tries Counter as they were.
C10_MissingPuzzleChangesNothing ==
    [][load_puzzle(NoFile) =>
        /\ effects' = <<"error">>
        /\ UNCHANGED <<solution, n_columns, n_rows, grid, column_hints,
                       row_hints, tries_left>>]_vars

\* A missing puzzle was reported in the middle of a game.
C10_Witness ==
    /\ effects = <<"error">>
    /\ ~AllUnmarked(grid)
    /\ tries_left < MAX_TRIES

\* The grid a puzzle file describes, read off its tokens line by line.
GridOfFile(lines) ==
    [r \in 1..Len(lines) |-> [c \in 1..Len(lines[r]) |->
        CASE lines[r][c] = "1" -> 1 [] lines[r][c] = "0" -> 0]]

\* The play grid g has the dimensions of the solution grid sol.
SameShape(g, sol) ==
    /\ Len(g) = Len(sol)
    /\ \A i \in 1..Len(sol) : Len(g[i]) = Len(sol[i])

\* What a successful load of the file opened has to establish.
Loaded(opened) ==
    /\ solution' = GridOfFile(opened.lines)
    /\ n_rows' = Len(opened.lines)
    /\ n_columns' = Len(opened.lines[1])
    /\ AllUnmarked(grid') /\ SameShape(grid', solution')
    /\ tries_left' = MAX_TRIES
    /\ <<column_hints', row_hints'>> = determine_hints(solution')

\* C11: a successful load_puzzle, from any reachable state, replaces the
\* Solution Grid by the one of the file and leaves the Play Grid all
\* Unmarked with the dimensions of the new solution, the Tries Counter at
\* MAX_TRIES and the hints equal to those derived from the new solution:
\* in every reachable state every puzzle file can be loaded, and no load of
\* it ends otherwise.
C11_LoadReplacesAndRestarts ==
    \A opened \in OpenResults :
        opened.found =>
            /\ ENABLED load_puzzle(opened)
            /\ ~ENABLED (load_puzzle(opened) /\ ~Loaded(opened))

\* A puzzle was loaded in the middle of a game, and its shape differs from
\* one row of one cell.
C11_Witness ==
    /\ effects = <<"tries_label", "draw">>
    /\ n_rows > 1
    /\ \E y \in Rows : \E x \in Cols : SolutionAt(y, x) = 1

\* The positions of a line (a sequence of 0 and 1) where a run of 1 starts.
RunStarts(line) ==
    {i \in 1..Len(line) : line[i] = 1 /\ (i = 1 \/ line[i - 1] = 0)}

\* The length of the maximal run of 1 that starts at position s.
RunLength(line, s) ==
    Cardinality({e \in s..Len(line) : \A k \in s..e : line[k] = 1})

\* The lengths of the maximal runs of 1 of a line, in reading order.
Runs(line) ==
    [k \in 1..Cardinality(RunStarts(line)) |->
        RunLength(line, CHOOSE s \in RunStarts(line) :
            Cardinality({t \in RunStarts(line) : t < s}) = k - 1)]

\* Column c of a grid, top to bottom.
ColumnOf(sol, c) == [r \in 1..Len(sol) |-> sol[r][c]]

\* The hints have been derived.
HintsDerived == row_hints # <<>>

\* C12: determine_hints returns, for each column (first component) and each
\* row (second component), exactly the lengths of the maximal runs of
\* filled cells of that line in reading order; every hint is positive.
C12_HintsAreRunLengths ==
    HintsDerived =>
        /\ column_hints = [c \in 1..n_columns |-> Runs(ColumnOf(solution, c))]
        /\ row_hints = [r \in 1..n_rows |-> Runs(solution[r])]
        /\ <<column_hints, row_hints>> = determine_hints(solution)
        /\ \A c \in 1..n_columns : \A k \in 1..Len(column_hints[c]) :
              column_hints[c][k] \in 1..n_rows
        /\ \A r \in 1..n_rows : \A k \in 1..Len(row_hints[r]) :
              row_hints[r][k] \in 1..n_columns

\* Hints were derived for a grid with a row of two runs of different
\* lengths, where the order of the hints shows, and a column of one run
\* over two rows.
C12_Witness ==
    /\ HintsDerived
    /\ \E r \in 1..n_rows : row_hints[r] = <<1, 2>>
    /\ \E c \in 1..n_columns : column_hints[c] = <<2>>

\* C13: between operations the Play Grid has the rows and columns of the
\* Solution Grid (and n_rows, n_columns are its dimensions), and the stored
\* column and row hints are those determine_hints derives from the current
\* Solution Grid.
C13_ShapeAndHintsConsistent ==
    /\ SameShape(grid, solution)
    /\ n_rows = Len(solution)
    /\ \A i \in 1..Len(solution) : n_columns = Len(solution[i])
    /\ column_hints = determine_hints(solution)[1]
    /\ row_hints = determine_hints(solution)[2]

\* In the middle of a game on a puzzle of more than one line, whose column
\* hints differ from its row hints.
C13_Witness ==
    /\ ~AllUnmarked(grid)
    /\ tries_left < MAX_TRIES
    /\ n_rows * n_columns > 1
    /\ column_hints # row_hints

\* C14: in every reachable state the Tries Counter is an integer from 0 to
\* MAX_TRIES: it is never negative and never more than MAX_TRIES.
C14_TriesInRange == tries_left \in 0..MAX_TRIES

\* One try is left: every mistake but the last has been made.
C14_Witness == tries_left = 1 /\ mistakes = MAX_TRIES - 1

NoneCrossed(g) == \A i \in 1..Len(g) : \A j \in 1..Len(g[i]) : g[i][j] # "x"

\* Where every solution-filled cell is Filled check_state is true, whether
\* a solution-empty cell is Unmarked or Crossed.
WinWhateverTheRest ==
    Solved(grid) =>
        /\ check_state(solution, grid, n_rows, n_columns)
        /\ \A y \in Rows : \A x \in Cols : \A v \in {"0", "x"} :
              SolutionAt(y, x) = 0 =>
                  check_state(solution, WithCell(grid, y, x, v), n_rows, n_columns)

\* C15: in a game with all its tries and no Crossed cell (as it is after a
\* restart and after any primary clicks on solution-filled cells only), a
\* primary click on a solution-filled cell leaves that cell Filled, keeps
\* all tries and every other cell, and signals "won" as soon as every
\* solution-filled cell is Filled; and every step ends in a state where
\* check_state is true if all solution-filled cells are Filled, whether a
\* solution-empty cell is Unmarked or Crossed.
C15_CorrectClicksWin ==
    [][/\ WinWhateverTheRest'
       /\ \A y \in Rows : \A x \in Cols :
            (/\ tries_left = MAX_TRIES /\ NoneCrossed(grid)
             /\ SolutionAt(y, x) = 1
             /\ on_click(ClickAt(1, y, x))) =>
                /\ grid' = WithCell(grid, y, x, "1")
                /\ tries_left' = MAX_TRIES
                /\ NoneCrossed(grid')
                /\ Solved(grid') => Shown("won", effects')]_vars

\* A puzzle with two filled cells and an empty one was completed by correct
\* primary clicks alone: all tries are left and nothing is Crossed.
C15_Witness ==
    /\ Solved(grid) /\ Shown("won", effects)
    /\ tries_left = MAX_TRIES /\ NoneCrossed(grid)
    /\ Cardinality({c \in Rows \X Cols : SolutionAt(c[1], c[2]) = 1}) = 2
    /\ \E y \in Rows : \E x \in Cols : SolutionAt(y, x) = 0

\* The last handler ran restart_game: after the last try, or for a new puzzle.
JustRestarted ==
    \/ effects = <<"tries_label", "game_over", "tries_label", "draw">>
    \/ effects = <<"tries_label", "draw">>

\* C16: immediately after a restart, whether the tries ran out or a puzzle
\* was loaded, check_state is true exactly if the Solution Grid has no
\* filled cell.
C16_WinAfterRestartIffEmpty ==
    JustRestarted =>
        (check_state(solution, grid, n_rows, n_columns)
            <=> \A y \in Rows : \A x \in Cols : SolutionAt(y, x) = 0)

\* The tries ran out on a puzzle that has a filled cell; the restarted game
\* is not won.
C16_Witness ==
    /\ effects = <<"tries_label", "game_over", "tries_label", "draw">>
    /\ \E y \in Rows : \E x \in Cols : SolutionAt(y, x) = 1
    /\ ~check_state(solution, grid, n_rows, n_columns)

\* A step changes the Solution Grid, its dimensions or the hints.
PuzzleChanges ==
    \/ solution' # solution
    \/ n_rows' # n_rows \/ n_columns' # n_columns
    \/ column_hints' # column_hints \/ row_hints' # row_hints

\* C17: no click the canvas can deliver (primary, secondary or other, the
\* click that restarts the game included) and no failed load changes the
\* Solution Grid, its dimensions or the row and column hints; the only
\* other operation is the successful load_puzzle.
C17_OnlyLoadChangesPuzzle ==
    /\ \A e \in ClickEvents : ~ENABLED (on_click(e) /\ PuzzleChanges)
    /\ ~ENABLED (load_puzzle(NoFile) /\ PuzzleChanges)

\* The tries ran out on a puzzle whose column hints differ from its row
\* hints, and restart_game derived them again.
C17_Witness ==
    /\ Shown("game_over", effects)
    /\ column_hints # row_hints
    /\ \E r \in 1..n_rows : row_hints[r] # <<>>

\* Every cell of the Solution Grid has the value v.
Uniform(v) ==
    \A r \in 1..n_rows : \A c \in 1..n_columns : solution[r][c] = v

\* C18: for an all-filled grid of r rows and c columns every row hint is
\* the single run c and every column hint the single run r; for an
\* all-empty grid every row hint and every column hint is empty.
C18_UniformGridHints ==
    HintsDerived =>
        /\ Uniform(1) =>
              /\ \A r \in 1..n_rows : row_hints[r] = <<n_columns>>
              /\ \A c \in 1..n_columns : column_hints[c] = <<n_rows>>
        /\ Uniform(0) =>
              /\ \A r \in 1..n_rows : row_hints[r] = <<>>
              /\ \A c \in 1..n_columns : column_hints[c] = <<>>
        /\ Len(row_hints) = n_rows /\ Len(column_hints) = n_columns

\* Hints were derived for an all-filled grid that is not square.
C18_Witness ==
    /\ HintsDerived
    /\ Uniform(1)
    /\ n_rows = 2 /\ n_columns = 3

\* C19: in every reachable state every Filled cell of the Play Grid lies
\* over a filled cell of the current Solution Grid (play-grid row y against
\* solution row n_rows - 1 - y).
C19_FilledOnlyOverFilled ==
    \A y \in Rows : \A x \in Cols :
        GridAt(grid, y, x) = "1" => SolutionAt(y, x) = 1

\* A cell is Filled in a puzzle of more than one row that also has an empty
\* solution cell, after a mistake.
C19_Witness ==
    /\ \E y \in Rows : \E x \in Cols : GridAt(grid, y, x) = "1"
    /\ \E y \in Rows : \E x \in Cols : SolutionAt(y, x) = 0
    /\ n_rows > 1
    /\ mistakes > 0

\* The clicks still needed to fill every solution-filled cell of the play
\* grid g: one for an Unmarked cell, two for a Crossed one.
ClicksToWin(g) ==
    Cardinality({c \in Rows \X Cols :
                    SolutionAt(c[1], c[2]) = 1 /\ GridAt(g, c[1], c[2]) # "1"})
    + Cardinality({c \in Rows \X Cols :
                    SolutionAt(c[1], c[2]) = 1 /\ GridAt(g, c[1], c[2]) = "x"})

\* A step that brings the win one click nearer and costs nothing.
OneClickNearer ==
    /\ ClicksToWin(grid') = ClicksToWin(grid) - 1
    /\ tries_left' = tries_left
    /\ UNCHANGED <<solution, n_rows, n_columns>>

\* C20: the game never gets stuck. In every reachable state check_state is
\* true when no click is needed any more, and otherwise some click on a grid
\* cell brings the win one click nearer without losing a try, so that
\* finitely many such clicks reach a state where check_state is true; in
\* particular a solution-filled cell that is Crossed can be un-crossed by a
\* secondary click, and one that is Unmarked can be Filled by a primary
\* click.
C20_WinAlwaysReachable ==
    /\ ClicksToWin(grid) = 0 => check_state(solution, grid, n_rows, n_columns)
    /\ ClicksToWin(grid) > 0 =>
          \E b \in {1, 3} : \E y \in Rows : \E x \in Cols :
              ENABLED (on_click(ClickAt(b, y, x)) /\ OneClickNearer)
    /\ \A y \in Rows : \A x \in Cols :
          SolutionAt(y, x) = 1 =>
              /\ GridAt(grid, y, x) = "x" =>
                    ENABLED (/\ on_click(ClickAt(3, y, x))
                             /\ GridAt(grid', y, x) = "0"
                             /\ OneClickNearer)
              /\ GridAt(grid, y, x) = "0" =>
                    ENABLED (/\ on_click(ClickAt(1, y, x))
                             /\ GridAt(grid', y, x) = "1"
                             /\ OneClickNearer)

\* With one try left, a solution-filled cell is Crossed and another cell
\* is still Unmarked.
C20_Witness ==
    /\ tries_left = 1
    /\ \E y \in Rows : \E x \in Cols :
          SolutionAt(y, x) = 1 /\ GridAt(grid, y, x) = "x"
    /\ ClicksToWin(grid) > 2

====
